---- MODULE Spec2Model ----
(***************************************************************************)
(* Model of the composite renderers of the squirrel SQL builder: the       *)
(* UNION chain (unionData.toSql), the CASE expression (caseData.ToSql and  *)
(* sqlizerBuffer) and the LATERAL from/join parts (joins.go), together     *)
(* with the fluent builder calls that assemble them.                       *)
(*                                                                         *)
(* SQL text is a sequence of chunks.  A chunk is either pure whitespace    *)
(* (" ", "\n") or a piece of text with no leading, trailing or repeated    *)
(* whitespace; the neutral placeholder "?" is always a chunk of its own.   *)
(* The concatenation of the chunks is the Go string.                       *)
(***************************************************************************)
EXTENDS Integers, Sequences, FiniteSets, TLC

VARIABLES kind, regs, ghost, budget

vars == <<kind, regs, ghost, budget>>

(***************************************************************************)
(* Bounds of the model.                                                    *)
(***************************************************************************)
MaxParts == 2
MaxExtras == 1
MaxWhens == 2
MaxElseCalls == 2
MaxJoins == 1
MaxCalls == 2

(***************************************************************************)
(* Values.                                                                 *)
(***************************************************************************)
\* Go's nil interface value
Nil == [kind |-> "nil"]
\* nil as a bound argument
NilValue == "<nil>"
\* a nil error
NoErr == ""
\* a nil PlaceholderFormat
NoFormat == "nil"

Res(sql, args, err, calls) ==
    [sql |-> sql, args |-> args, err |-> err, calls |-> calls]

RECURSIVE Text(_)
\* the Go string a chunk sequence stands for
Text(s) == IF s = <<>> THEN "" ELSE Head(s) \o Text(Tail(s))

IsSpace(c) == c \in {" ", "\n", "\t"}

\* the types that implement Sqlizer
IsSqlizer(v) ==
    v.kind \in {"expr", "part", "select", "cte", "union", "case",
                "fromSelectLateralPart", "joinLateralSelectPart"}

(***************************************************************************)
(* Placeholder formats.                                                    *)
(***************************************************************************)
RECURSIVE replacePositionalPlaceholders(_, _, _)
replacePositionalPlaceholders(sql, prefix, i) ==
    IF sql = <<>> THEN <<>>
    ELSE IF Head(sql) = "?"
         THEN <<prefix \o ToString(i)>>
                  \o replacePositionalPlaceholders(Tail(sql), prefix, i + 1)
         ELSE <<Head(sql)>>
                  \o replacePositionalPlaceholders(Tail(sql), prefix, i)

ReplacePlaceholders(f, sql) ==
    CASE f = "Question" -> sql
      [] f = "Dollar" -> replacePositionalPlaceholders(sql, "$", 1)
      [] f = "Colon" -> replacePositionalPlaceholders(sql, ":", 1)

(***************************************************************************)
(* Elementary fragments.                                                   *)
(***************************************************************************)
Expr(sql, args) == [kind |-> "expr", sql |-> sql, args |-> args]

\* a Go string passed where `any` is accepted
Str(sql) == [kind |-> "str", sql |-> sql]

\* a Go value that is neither nil, a string nor a Sqlizer
Lit(v) == [kind |-> "lit", v |-> v]

newPart(pred) == [kind |-> "part", pred |-> pred, args |-> <<>>]

Select(columns) ==
    [kind |-> "select", PlaceholderFormat |-> "Question", Columns |-> columns,
     From |-> Nil, Joins |-> <<>>, WhereParts |-> <<>>]

SelectBuilder_From(b, from) == [b EXCEPT !.From = newPart(Str(from))]

SelectBuilder_Where(b, pred) ==
    [b EXCEPT !.WhereParts = Append(b.WhereParts, pred)]

SelectBuilder_PlaceholderFormat(b, f) == [b EXCEPT !.PlaceholderFormat = f]

\* a CommonTableExpressionsBuilder: WITH ... <statement>, with its own format
Cte(sql, args) ==
    [kind |-> "cte", PlaceholderFormat |-> "Question", sql |-> sql, args |-> args]

CommonTableExpressionsBuilder_PlaceholderFormat(b, f) ==
    [b EXCEPT !.PlaceholderFormat = f]

(***************************************************************************)
(* compactSQL: strings.Join(strings.Fields(s), " ")                        *)
(***************************************************************************)
RECURSIVE compactFields(_, _, _)
compactFields(s, pending, started) ==
    IF s = <<>> THEN <<>>
    ELSE IF IsSpace(Head(s))
         THEN compactFields(Tail(s), started, started)
         ELSE (IF pending THEN <<" ">> ELSE <<>>) \o <<Head(s)>>
                  \o compactFields(Tail(s), FALSE, TRUE)

compactSQL(s) == compactFields(s, FALSE, FALSE)

(***************************************************************************)
(* sqlizerBuffer                                                           *)
(***************************************************************************)
sqlizerBuffer == [buf |-> <<>>, args |-> <<>>, err |-> NoErr, calls |-> 0]

WriteString(b, s) == [b EXCEPT !.buf = b.buf \o s]

sqlizerBuffer_ToSql(b) == Res(b.buf, b.args, b.err, b.calls)

(***************************************************************************)
(* Rendering.  Every renderer returns (sql, args, err); calls counts the   *)
(* nested fragments the renderer asked to render.                          *)
(***************************************************************************)
RECURSIVE ToSql(_)
RECURSIVE nestedToSql(_)
RECURSIVE appendToSqlFrom(_, _, _, _, _, _)
RECURSIVE unionParts(_, _, _, _)
RECURSIVE caseWhenParts(_, _, _)

part_ToSql(p) ==
    CASE p.pred.kind = "nil" -> Res(<<>>, <<>>, NoErr, 0)
      [] p.pred.kind = "str" -> Res(p.pred.sql, p.args, NoErr, 0)
      [] p.pred.kind = "lit" ->
            Res(<<>>, <<>>, "expected string or Sqlizer, not " \o p.pred.v, 0)
      [] OTHER -> LET r == nestedToSql(p.pred)
                  IN  Res(r.sql, r.args, r.err, 1)

\* appendToSql(parts, w, sep, args), from part number i on; n counts the renders
appendToSqlFrom(parts, i, buf, sep, args, n) ==
    IF i > Len(parts) THEN Res(buf, args, NoErr, n)
    ELSE LET r == nestedToSql(parts[i])
         IN  IF r.err # NoErr THEN Res(buf, <<>>, r.err, n + 1)
             ELSE IF r.sql = <<>>
                  THEN appendToSqlFrom(parts, i + 1, buf, sep, args, n + 1)
                  ELSE appendToSqlFrom(parts, i + 1,
                           buf \o (IF i > 1 THEN sep ELSE <<>>) \o r.sql,
                           sep, args \o r.args, n + 1)

appendToSql(parts, buf, sep, args) == appendToSqlFrom(parts, 1, buf, sep, args, 0)

selectData_toSqlRaw(d) ==
    IF d.Columns = <<>>
    THEN Res(<<>>, <<>>, "select statements must have at least one result column", 0)
    ELSE
    LET b0 == <<"SELECT", " ">> \o d.Columns
        f  == IF d.From # Nil
              THEN appendToSql(<<d.From>>, b0 \o <<" ", "FROM", " ">>, <<>>, <<>>)
              ELSE Res(b0, <<>>, NoErr, 0)
        j  == IF f.err = NoErr /\ Len(d.Joins) > 0
              THEN appendToSql(d.Joins, f.sql \o <<" ">>, <<" ">>, f.args)
              ELSE Res(f.sql, f.args, f.err, 0)
        w  == IF j.err = NoErr /\ Len(d.WhereParts) > 0
              THEN appendToSql(d.WhereParts, j.sql \o <<" ", "WHERE", " ">>,
                               <<" ", "AND", " ">>, j.args)
              ELSE Res(j.sql, j.args, j.err, 0)
        n  == f.calls + j.calls + w.calls
    IN  IF w.err # NoErr THEN Res(<<>>, <<>>, w.err, n)
        ELSE Res(w.sql, w.args, NoErr, n)

selectData_ToSql(d) ==
    LET r == selectData_toSqlRaw(d)
    IN  IF r.err # NoErr THEN r
        ELSE Res(ReplacePlaceholders(d.PlaceholderFormat, r.sql), r.args, NoErr, r.calls)

cte_ToSql(d) == Res(ReplacePlaceholders(d.PlaceholderFormat, d.sql), d.args, NoErr, 0)

(***************************************************************************)
(* joins.go                                                                *)
(***************************************************************************)
fromSelectLateralPart_ToSql(p) ==
    LET sub == ToSql(p.sel)
    IN  IF sub.err # NoErr THEN Res(<<>>, <<>>, sub.err, 1)
        ELSE Res(<<"LATERAL (">> \o sub.sql \o <<") AS " \o p.alias>>, sub.args, NoErr, 1)

joinLateralSelectPart_ToSql(p) ==
    LET sub == ToSql(p.sel)
    IN  IF sub.err # NoErr THEN Res(<<>>, <<>>, sub.err, 1)
        ELSE LET buf == <<p.joinType \o " LATERAL (">> \o sub.sql
                            \o <<") AS " \o p.alias>>
             IN  IF p.on # Nil
                 THEN LET on == ToSql(p.on)
                      IN  IF on.err # NoErr THEN Res(<<>>, <<>>, on.err, 2)
                          ELSE Res(buf \o <<" ", "ON", " ">> \o on.sql,
                                   sub.args \o on.args, NoErr, 2)
                 ELSE Res(buf, sub.args, NoErr, 1)

(***************************************************************************)
(* unionData.toSql                                                         *)
(***************************************************************************)
\* the loop over d.Parts, from segment i on
unionParts(parts, i, buf, args) ==
    IF i > Len(parts) THEN Res(buf, args, NoErr, Len(parts))
    ELSE LET p == parts[i]
             sub == ToSql(p.query)
         IN  IF sub.err # NoErr
             THEN Res(<<>>, <<>>,
                      "squirrel: union subquery " \o ToString(i - 1) \o ": " \o sub.err, i)
             ELSE unionParts(parts, i + 1,
                      buf \o (IF i > 1 THEN <<" ", p.op, " ">> ELSE <<>>)
                          \o <<"(">> \o sub.sql \o <<")">>,
                      args \o sub.args)

RECURSIVE JoinStrings(_, _)
\* strings.Join(elems, sep)
JoinStrings(elems, sep) ==
    IF elems = <<>> THEN <<>>
    ELSE IF Len(elems) = 1 THEN <<elems[1]>>
    ELSE <<elems[1]>> \o sep \o JoinStrings(Tail(elems), sep)

\* ORDER BY, LIMIT and OFFSET of the whole union
unionClauses(d, buf) ==
    LET b1 == IF Len(d.OrderBy) > 0
              THEN buf \o <<" ", "ORDER BY", " ">> \o JoinStrings(d.OrderBy, <<",", " ">>)
              ELSE buf
        b2 == IF d.LimitSet THEN b1 \o <<" ", "LIMIT", " ", ToString(d.Limit)>> ELSE b1
    IN  IF d.OffsetSet THEN b2 \o <<" ", "OFFSET", " ", ToString(d.Offset)>> ELSE b2

\* the arguments of the suffixes are dropped
unionSuffixes_DropArgs(d, buf, args) ==
    IF Len(d.Suffixes) > 0
    THEN LET r == appendToSql(d.Suffixes, buf \o <<" ">>, <<" ">>, args)
         IN  Res(r.sql, args, r.err, r.calls)
    ELSE Res(buf, args, NoErr, 0)

unionSuffixes(d, buf, args) ==
    IF Len(d.Suffixes) > 0
    THEN appendToSql(d.Suffixes, buf \o <<" ">>, <<" ">>, args)
    ELSE Res(buf, args, NoErr, 0)

\* placeholder replacement last, then the optional compaction
unionFinish(d, sqlStr) ==
    LET s1 == IF d.PlaceholderFormat # NoFormat
              THEN ReplacePlaceholders(d.PlaceholderFormat, sqlStr)
              ELSE sqlStr
    IN  IF d.CompactOutput THEN compactSQL(s1) ELSE s1

\* unionData.toSql after the check for an empty chain
unionRender(d) ==
    LET body == unionParts(d.Parts, 1, <<>>, <<>>)
    IN  IF body.err # NoErr THEN body
        ELSE LET sfx == unionSuffixes(d, unionClauses(d, body.sql), body.args)
                 n == body.calls + sfx.calls
             IN  IF sfx.err # NoErr THEN Res(<<>>, <<>>, sfx.err, n)
                 ELSE Res(unionFinish(d, sfx.sql), sfx.args, NoErr, n)

\* no check for an empty chain
unionData_toSql_NoEmptyCheck(d) == unionRender(d)

unionData_toSql(d) ==
    IF Len(d.Parts) = 0
    THEN Res(<<>>, <<>>, "squirrel: union requires at least one SELECT", 0)
    ELSE unionRender(d)

(***************************************************************************)
(* caseData.ToSql                                                          *)
(***************************************************************************)
WriteSql(b, item) ==
    IF b.err # NoErr THEN b
    ELSE LET r == nestedToSql(item)
         IN  IF r.err # NoErr
             THEN [b EXCEPT !.err = r.err, !.calls = b.calls + 1]
             ELSE [buf |-> b.buf \o r.sql \o <<" ">>, args |-> b.args \o r.args,
                   err |-> NoErr, calls |-> b.calls + 1]

\* the loop over d.WhenParts, from part i on; a missing THEN ends it with done
caseWhenParts(parts, i, sql) ==
    IF i > Len(parts) THEN [b |-> sql, missingThen |-> FALSE]
    ELSE LET p == parts[i]
             s1 == WriteSql(WriteString(sql, <<"WHEN", " ">>), p.when)
         IN  IF p.then = Nil /\ p.thenValue = NilValue /\ ~p.nullThen
             THEN [b |-> s1, missingThen |-> TRUE]
             ELSE LET s2 == WriteString(s1, <<"THEN", " ">>)
                      s3 == IF p.then # Nil THEN WriteSql(s2, p.then)
                            ELSE [WriteString(s2, <<"?", " ">>)
                                    EXCEPT !.args = Append(s2.args, p.thenValue)]
                  IN  caseWhenParts(parts, i + 1, s3)

\* the ELSE clause
caseElse(d, sql) ==
    LET s2 == IF d.Else # Nil \/ d.ElseValue # NilValue \/ d.ElseNull
              THEN WriteString(sql, <<"ELSE", " ">>)
              ELSE sql
    IN  IF d.Else # Nil THEN WriteSql(s2, d.Else)
        ELSE IF d.ElseValue # NilValue \/ d.ElseNull
             THEN [WriteString(s2, <<"?", " ">>)
                     EXCEPT !.args = Append(s2.args, d.ElseValue)]
             ELSE s2

caseData_ToSql(d) ==
    IF Len(d.WhenParts) = 0
    THEN Res(<<>>, <<>>, "case expression must contain at lease one WHEN clause", 0)
    ELSE
    LET s0 == WriteString(sqlizerBuffer, <<"CASE", " ">>)
        s1 == IF d.What # Nil THEN WriteSql(s0, d.What) ELSE s0
        w  == caseWhenParts(d.WhenParts, 1, s1)
    IN  IF w.missingThen
        THEN Res(<<>>, <<>>, "When clause must have Then part", w.b.calls)
        ELSE sqlizerBuffer_ToSql(WriteString(caseElse(d, w.b), <<"END">>))

(***************************************************************************)
(* Dispatch on the dynamic type.                                           *)
(***************************************************************************)
ToSql(f) ==
    CASE f.kind = "expr" -> Res(f.sql, f.args, NoErr, 0)
      [] f.kind = "part" -> part_ToSql(f)
      [] f.kind = "select" -> selectData_ToSql(f)
      [] f.kind = "cte" -> cte_ToSql(f)
      [] f.kind = "union" -> unionData_toSql(f)
      [] f.kind = "case" -> caseData_ToSql(f)
      [] f.kind = "fromSelectLateralPart" -> fromSelectLateralPart_ToSql(f)
      [] f.kind = "joinLateralSelectPart" -> joinLateralSelectPart_ToSql(f)

\* a rawSqlizer renders without its own placeholder rewrite
nestedToSql(f) ==
    IF f.kind = "select" THEN selectData_toSqlRaw(f) ELSE ToSql(f)

(***************************************************************************)
(* Builder state (github.com/lann/builder): every call returns a new value *)
(***************************************************************************)
builder_Set(b, name, v) == [b EXCEPT ![name] = v]

builder_Append(b, name, v) == [b EXCEPT ![name] = Append(b[name], v)]

builder_Extend(b, name, vs) == [b EXCEPT ![name] = b[name] \o vs]

(***************************************************************************)
(* UnionBuilder                                                            *)
(***************************************************************************)
unionDistinct == "UNION"
unionAll == "UNION ALL"

unionPart(op, query) == [op |-> op, query |-> query]

\* UnionBuilder{}
unionData ==
    [kind |-> "union", PlaceholderFormat |-> NoFormat, Parts |-> <<>>,
     OrderBy |-> <<>>, LimitSet |-> FALSE, Limit |-> 0, OffsetSet |-> FALSE,
     Offset |-> 0, Suffixes |-> <<>>, CompactOutput |-> FALSE]

RECURSIVE unionCtor(_, _, _, _)
\* the loop of the constructors over parts, from part i on
unionCtor(u, parts, i, op) ==
    IF i > Len(parts) THEN u
    ELSE unionCtor(builder_Append(u, "Parts",
                       unionPart(IF i = 1 THEN "" ELSE op, parts[i])),
                   parts, i + 1, op)

Union(parts) == unionCtor(unionData, parts, 1, unionDistinct)

UnionAll(parts) == unionCtor(unionData, parts, 1, unionAll)

UnionBuilder_Union(b, q) == builder_Append(b, "Parts", unionPart(unionDistinct, q))

\* the segment is recorded with the keyword of Union
UnionBuilder_UnionAll_Distinct(b, q) ==
    builder_Append(b, "Parts", unionPart(unionDistinct, q))

UnionBuilder_UnionAll(b, q) == builder_Append(b, "Parts", unionPart(unionAll, q))

UnionBuilder_OrderBy(b, exprs) == builder_Extend(b, "OrderBy", exprs)

UnionBuilder_Limit(b, n) == builder_Set(builder_Set(b, "LimitSet", TRUE), "Limit", n)

UnionBuilder_Offset(b, n) == builder_Set(builder_Set(b, "OffsetSet", TRUE), "Offset", n)

UnionBuilder_Suffix(b, exprs) == builder_Extend(b, "Suffixes", exprs)

UnionBuilder_PlaceholderFormat(b, f) == builder_Set(b, "PlaceholderFormat", f)

UnionBuilder_Compact(b) == builder_Set(b, "CompactOutput", TRUE)

(***************************************************************************)
(* CaseBuilder                                                             *)
(***************************************************************************)
\* the value bound for a literal THEN or ELSE
AnyValue(v) ==
    CASE v.kind = "nil" -> NilValue
      [] v.kind = "lit" -> v.v
      [] v.kind = "str" -> Text(v.sql)

newWhenPart(when, then) ==
    [when |-> newPart(when),
     then |-> IF IsSqlizer(then) THEN newPart(then) ELSE Nil,
     thenValue |-> IF IsSqlizer(then) \/ then = Nil THEN NilValue ELSE AnyValue(then),
     nullThen |-> ~IsSqlizer(then) /\ then = Nil]

\* CaseBuilder{}
caseData ==
    [kind |-> "case", What |-> Nil, WhenParts |-> <<>>, Else |-> Nil,
     ElseValue |-> NilValue, ElseNull |-> FALSE]

CaseBuilder_what(b, e) == builder_Set(b, "What", newPart(e))

\* Case(what...) with zero or one operand
Case(what) == IF what = <<>> THEN caseData ELSE CaseBuilder_what(caseData, what[1])

CaseBuilder_When(b, when, then) ==
    builder_Append(b, "WhenParts", newWhenPart(when, then))

CaseBuilder_Else(b, e) ==
    IF IsSqlizer(e) THEN builder_Set(b, "Else", newPart(e))
    ELSE IF e = Nil THEN builder_Set(b, "ElseNull", TRUE)
    ELSE builder_Set(b, "ElseValue", AnyValue(e))

(***************************************************************************)
(* joins.go: the lateral calls of SelectBuilder                            *)
(***************************************************************************)
\* the embedded fragment keeps the format it was given
forceQuestionPlaceholders_Keep(s) == s

forceQuestionPlaceholders(s) ==
    CASE s.kind = "select" -> SelectBuilder_PlaceholderFormat(s, "Question")
      [] s.kind = "cte" -> CommonTableExpressionsBuilder_PlaceholderFormat(s, "Question")
      [] OTHER -> s

fromSelectLateralPart(sel, alias) ==
    [kind |-> "fromSelectLateralPart", sel |-> sel, alias |-> alias]

joinLateralSelectPart(joinType, sel, alias, on) ==
    [kind |-> "joinLateralSelectPart", joinType |-> joinType, sel |-> sel,
     alias |-> alias, on |-> on]

FromSelectLateral(b, sel, alias) ==
    builder_Set(b, "From", fromSelectLateralPart(forceQuestionPlaceholders(sel), alias))

JoinLateralSelect(b, sel, alias, on) ==
    builder_Append(b, "Joins",
        joinLateralSelectPart("JOIN", forceQuestionPlaceholders(sel), alias, on))

LeftJoinLateralSelect(b, sel, alias, on) ==
    builder_Append(b, "Joins",
        joinLateralSelectPart("LEFT JOIN", forceQuestionPlaceholders(sel), alias, on))

CrossJoinLateralSelect(b, sel, alias) ==
    builder_Append(b, "Joins",
        joinLateralSelectPart("CROSS JOIN", forceQuestionPlaceholders(sel), alias, Nil))

(***************************************************************************)
(* The inputs of the builder calls.                                        *)
(***************************************************************************)
\* the builder values a caller holds
Regs == {"a", "b", "c"}

\* Select("id").From("a").Where(Expr("x > ?", 10))
SelQ ==
    SelectBuilder_Where(SelectBuilder_From(Select(<<"id">>), <<"a">>),
                        Expr(<<"x >", " ", "?">>, <<"10">>))

\* Select("id").From("b").Where(Expr("y < ?", 5)).PlaceholderFormat(Dollar)
SelD ==
    SelectBuilder_PlaceholderFormat(
        SelectBuilder_Where(SelectBuilder_From(Select(<<"id">>), <<"b">>),
                            Expr(<<"y <", " ", "?">>, <<"5">>)),
        "Dollar")

\* Select("c").From("t").Where(Expr("c > ?", 1)).PlaceholderFormat(Colon)
SelC ==
    SelectBuilder_PlaceholderFormat(
        SelectBuilder_Where(SelectBuilder_From(Select(<<"c">>), <<"t">>),
                            Expr(<<"c >", " ", "?">>, <<"1">>)),
        "Colon")

\* Union(): a fragment whose rendering fails
EmptyU == Union(<<>>)

\* Union(SelQ).PlaceholderFormat(Dollar)
UnionD == UnionBuilder_PlaceholderFormat(Union(<<SelQ>>), "Dollar")

\* a CTE builder with the Dollar format
CteD ==
    CommonTableExpressionsBuilder_PlaceholderFormat(
        Cte(<<"WITH w AS (SELECT 1) SELECT n FROM w WHERE n =", " ", "?">>, <<"7">>),
        "Dollar")

\* Expr("generate_series(1,3)")
Raw == Expr(<<"generate_series(1,3)">>, <<>>)

\* Expr("/* hint ?\n*/", "h")
SfxArg == Expr(<<"/* hint", " ", "?", "\n", "*/">>, <<"h">>)

OnTrue == Expr(<<"TRUE">>, <<>>)

OnArg == Expr(<<"k =", " ", "?">>, <<"9">>)

WhenExpr == Expr(<<"a =", " ", "?">>, <<"w1">>)

ThenExpr == Expr(<<"b +", " ", "?">>, <<"t0">>)

ElseExpr == Expr(<<"c +", " ", "?">>, <<"e0">>)

ElseBare == Expr(<<"d">>, <<>>)

SegPool == {SelQ, SelD, EmptyU}
SuffixPool == {SfxArg, EmptyU}
OrderByPool == {<<"id", "n DESC">>}
LimitPool == {0}
OffsetPool == {2}
FormatPool == {"Question", "Dollar"}
WhenPool == {WhenExpr, EmptyU}
ThenPool == {ThenExpr, Lit("t1"), Nil}
ElsePool == {ElseExpr, ElseBare, Lit("e1"), Lit("e2"), Nil}
LateralPool == {SelQ, SelD, SelC, UnionD, CteD, Raw, EmptyU}
OnPool == {Nil, OnTrue, OnArg}

\* the inputs of the branching sessions
BranchSegPool == {SelQ}
BranchSuffixPool == {SfxArg}
BranchFormatPool == {"Dollar"}
BranchWhenPool == {WhenExpr}
BranchThenPool == {Lit("t1")}
BranchElsePool == {Lit("e1"), Nil}
BranchLateralPool == {SelD}
BranchOnPool == {OnTrue}

SeqsUpTo(S, n) == UNION {[1..m -> S] : m \in 0..n}

\* Select("c")[.From("users u")][.Where(Expr("c < ?", 2))][.PlaceholderFormat(Dollar)]
BaseSelects ==
    LET s0 == Select(<<"c">>)
        s1 == {s0, SelectBuilder_From(s0, <<"users u">>)}
        s2 == s1 \cup {SelectBuilder_Where(x, Expr(<<"c <", " ", "?">>, <<"2">>)) : x \in s1}
    IN  s2 \cup {SelectBuilder_PlaceholderFormat(x, "Dollar") : x \in s2}

(***************************************************************************)
(* State: kind is the builder type of the session; regs the builder values *)
(* the caller holds (only a in a session that keeps one value); ghost[r]   *)
(* the calls that made regs[r] what it is (the appending call of every     *)
(* UNION segment, the arguments of the Else calls); budget the number of   *)
(* calls left in a branching session (Unbounded otherwise).                *)
(***************************************************************************)
InitUnion ==
    /\ kind = "union"
    /\ \E parts \in SeqsUpTo(SegPool, MaxParts) :
          \/ /\ regs = [r \in {"a"} |-> Union(parts)]
             /\ ghost = [r \in {"a"} |-> [k \in 1..Len(parts) |-> "Union"]]
          \/ /\ regs = [r \in {"a"} |-> UnionAll(parts)]
             /\ ghost = [r \in {"a"} |-> [k \in 1..Len(parts) |-> "UnionAll"]]

InitCase ==
    /\ kind = "case"
    /\ \E what \in {<<>>, <<Str(<<"col">>)>>} : regs = [r \in {"a"} |-> Case(what)]
    /\ ghost = [r \in {"a"} |-> <<>>]

InitSelect ==
    /\ kind = "select"
    /\ \E s \in BaseSelects : regs = [r \in {"a"} |-> s]
    /\ ghost = [r \in {"a"} |-> <<>>]

Unbounded == 0 - 1

Init ==
    /\ budget = Unbounded
    /\ (InitUnion \/ InitCase \/ InitSelect)

InitBranch ==
    /\ budget = MaxCalls
    /\ \/ /\ kind = "union"
          /\ regs = [r \in Regs |-> Union(<<SelQ>>)]
          /\ ghost = [r \in Regs |-> <<"Union">>]
       \/ /\ kind = "case"
          /\ regs = [r \in Regs |-> Case(<<>>)]
          /\ ghost = [r \in Regs |-> <<>>]
       \/ /\ kind = "select"
          /\ regs = [r \in Regs |->
                        SelectBuilder_PlaceholderFormat(
                            SelectBuilder_From(Select(<<"c">>), <<"users u">>), "Dollar")]
          /\ ghost = [r \in Regs |-> <<>>]

(***************************************************************************)
(* The builder calls: regs[j] := regs[i].Call(...)                         *)
(***************************************************************************)
Store(j, b, g) ==
    /\ budget # 0
    /\ budget' = IF budget = Unbounded THEN Unbounded ELSE budget - 1
    /\ regs' = [regs EXCEPT ![j] = b]
    /\ ghost' = [ghost EXCEPT ![j] = g]
    /\ UNCHANGED kind

\* the receiver is changed too
DoUnion_InPlace(i, j, q) ==
    /\ kind = "union"
    /\ Len(regs[i].Parts) < MaxParts
    /\ budget # 0
    /\ budget' = IF budget = Unbounded THEN Unbounded ELSE budget - 1
    /\ regs' = [regs EXCEPT ![i] = UnionBuilder_Union(regs[i], q),
                            ![j] = UnionBuilder_Union(regs[i], q)]
    /\ ghost' = [ghost EXCEPT ![i] = Append(ghost[i], "Union"),
                              ![j] = Append(ghost[i], "Union")]
    /\ UNCHANGED kind

DoUnion(i, j, q) ==
    /\ kind = "union"
    /\ Len(regs[i].Parts) < MaxParts
    /\ Store(j, UnionBuilder_Union(regs[i], q), Append(ghost[i], "Union"))

DoUnionAll(i, j, q) ==
    /\ kind = "union"
    /\ Len(regs[i].Parts) < MaxParts
    /\ Store(j, UnionBuilder_UnionAll(regs[i], q), Append(ghost[i], "UnionAll"))

DoOrderBy(i, j, exprs) ==
    /\ kind = "union"
    /\ regs[i].OrderBy = <<>>
    /\ Store(j, UnionBuilder_OrderBy(regs[i], exprs), ghost[i])

DoLimit(i, j, n) ==
    /\ kind = "union"
    /\ Store(j, UnionBuilder_Limit(regs[i], n), ghost[i])

DoOffset(i, j, n) ==
    /\ kind = "union"
    /\ Store(j, UnionBuilder_Offset(regs[i], n), ghost[i])

DoSuffix(i, j, exprs) ==
    /\ kind = "union"
    /\ Len(regs[i].Suffixes) + Len(exprs) <= MaxExtras
    /\ Store(j, UnionBuilder_Suffix(regs[i], exprs), ghost[i])

DoPlaceholderFormat(i, j, f) ==
    /\ kind = "union"
    /\ Store(j, UnionBuilder_PlaceholderFormat(regs[i], f), ghost[i])

DoCompact(i, j) ==
    /\ kind = "union"
    /\ Store(j, UnionBuilder_Compact(regs[i]), ghost[i])

DoWhen(i, j, when, then) ==
    /\ kind = "case"
    /\ Len(regs[i].WhenParts) < MaxWhens
    /\ Store(j, CaseBuilder_When(regs[i], when, then), ghost[i])

DoElse(i, j, e) ==
    /\ kind = "case"
    /\ Len(ghost[i]) < MaxElseCalls
    /\ Store(j, CaseBuilder_Else(regs[i], e), Append(ghost[i], e))

DoFromSelectLateral(i, j, sel) ==
    /\ kind = "select"
    /\ Store(j, FromSelectLateral(regs[i], sel, "subq"), ghost[i])

DoJoinLateralSelect(i, j, sel, on) ==
    /\ kind = "select"
    /\ Len(regs[i].Joins) < MaxJoins
    /\ Store(j, JoinLateralSelect(regs[i], sel, "j", on), ghost[i])

DoLeftJoinLateralSelect(i, j, sel, on) ==
    /\ kind = "select"
    /\ Len(regs[i].Joins) < MaxJoins
    /\ Store(j, LeftJoinLateralSelect(regs[i], sel, "l", on), ghost[i])

DoCrossJoinLateralSelect(i, j, sel) ==
    /\ kind = "select"
    /\ Len(regs[i].Joins) < MaxJoins
    /\ Store(j, CrossJoinLateralSelect(regs[i], sel, "x"), ghost[i])

\* a session that keeps one builder value: a = a.Call(...)
Next ==
    \/ \E q \in SegPool : DoUnion("a", "a", q)
    \/ \E q \in SegPool : DoUnionAll("a", "a", q)
    \/ \E e \in OrderByPool : DoOrderBy("a", "a", e)
    \/ \E n \in LimitPool : DoLimit("a", "a", n)
    \/ \E n \in OffsetPool : DoOffset("a", "a", n)
    \/ \E e \in SuffixPool : DoSuffix("a", "a", <<e>>)
    \/ \E f \in FormatPool : DoPlaceholderFormat("a", "a", f)
    \/ DoCompact("a", "a")
    \/ \E w \in WhenPool, t \in ThenPool : DoWhen("a", "a", w, t)
    \/ \E e \in ElsePool : DoElse("a", "a", e)
    \/ \E s \in LateralPool : DoFromSelectLateral("a", "a", s)
    \/ \E s \in LateralPool, on \in OnPool : DoJoinLateralSelect("a", "a", s, on)
    \/ \E s \in LateralPool, on \in OnPool : DoLeftJoinLateralSelect("a", "a", s, on)
    \/ \E s \in LateralPool : DoCrossJoinLateralSelect("a", "a", s)

Spec == Init /\ [][Next]_vars

\* a session that branches: any value may be derived from any other
NextBranch ==
    \E i \in Regs, j \in Regs :
       \/ \E q \in BranchSegPool : DoUnion(i, j, q)
       \/ \E q \in BranchSegPool : DoUnionAll(i, j, q)
       \/ \E e \in OrderByPool : DoOrderBy(i, j, e)
       \/ \E n \in LimitPool : DoLimit(i, j, n)
       \/ \E n \in OffsetPool : DoOffset(i, j, n)
       \/ \E e \in BranchSuffixPool : DoSuffix(i, j, <<e>>)
       \/ \E f \in BranchFormatPool : DoPlaceholderFormat(i, j, f)
       \/ DoCompact(i, j)
       \/ \E w \in BranchWhenPool, t \in BranchThenPool : DoWhen(i, j, w, t)
       \/ \E e \in BranchElsePool : DoElse(i, j, e)
       \/ \E s \in BranchLateralPool : DoFromSelectLateral(i, j, s)
       \/ \E s \in BranchLateralPool, on \in BranchOnPool : DoJoinLateralSelect(i, j, s, on)
       \/ \E s \in BranchLateralPool, on \in BranchOnPool :
             DoLeftJoinLateralSelect(i, j, s, on)
       \/ \E s \in BranchLateralPool : DoCrossJoinLateralSelect(i, j, s)

SpecBranch == InitBranch /\ [][NextBranch]_vars

(***************************************************************************)
(* What the caller sees when rendering.                                    *)
(***************************************************************************)
Rendered(r) == ToSql(regs[r])

(***************************************************************************)
(* Reading a rendered text.                                                *)
(***************************************************************************)
PlaceholderChunks ==
    {"?"} \cup {"$" \o ToString(n) : n \in 1..12} \cup {":" \o ToString(n) : n \in 1..12}

\* the placeholders of a text, left to right
Placeholders(sql) == SelectSeq(sql, LAMBDA c : c \in PlaceholderChunks)

DollarSeq(n) == [k \in 1..n |-> "$" \o ToString(k)]

RECURSIVE Flatten(_)
Flatten(ss) == IF ss = <<>> THEN <<>> ELSE Head(ss) \o Flatten(Tail(ss))

Range(f) == {f[x] : x \in DOMAIN f}

\* the lateral parts of a SELECT, in the order of the text
LateralParts(b) ==
    (IF b.From.kind = "fromSelectLateralPart" THEN <<b.From>> ELSE <<>>) \o b.Joins

\* the arguments of the WHERE predicates of a SELECT
WhereArgs(b) == Flatten([k \in 1..Len(b.WhereParts) |-> b.WhereParts[k].args])

(***************************************************************************)
(* C1: a SELECT rendered with the Dollar format whose lateral subqueries   *)
(* are SELECT builders (of any format) has the placeholders $1..$N in      *)
(* textual order, N the number of arguments, and the arguments are in that *)
(* order: for every lateral part the arguments of its subquery, then those *)
(* of its ON condition, and after all parts those of the outer WHERE.      *)
(***************************************************************************)
C1_LateralArgs(p) ==
    WhereArgs(p.sel)
        \o (IF p.kind = "joinLateralSelectPart" /\ p.on # Nil THEN p.on.args ELSE <<>>)

C1_Applies ==
    /\ kind = "select"
    /\ regs["a"].PlaceholderFormat = "Dollar"
    /\ LateralParts(regs["a"]) # <<>>
    /\ \A p \in Range(LateralParts(regs["a"])) : p.sel.kind = "select"

C1_LateralDollarNumbering ==
    C1_Applies =>
        LET b == regs["a"]
            r == Rendered("a")
            parts == LateralParts(b)
        IN  /\ r.err = NoErr
            /\ Placeholders(r.sql) = DollarSeq(Len(r.args))
            /\ r.args = Flatten([k \in 1..Len(parts) |-> C1_LateralArgs(parts[k])])
                            \o WhereArgs(b)

C1_Witness ==
    /\ C1_Applies
    /\ Text(Rendered("a").sql) =
          "SELECT c FROM LATERAL (SELECT id FROM b WHERE y < $1) AS subq "
          \o "JOIN LATERAL (SELECT c FROM t WHERE c > $2) AS j ON k = $3 WHERE c < $4"
    /\ Rendered("a").args = <<"5", "1", "9", "2">>

(***************************************************************************)
(* C2: a UNION chain whose own format is Dollar renders the placeholders   *)
(* $1..$N in textual order, N the number of returned arguments, whatever   *)
(* format each segment carries.                                            *)
(***************************************************************************)
C2_DollarUnionNumbersOnce ==
    (kind = "union" /\ regs["a"].PlaceholderFormat = "Dollar"
        /\ Rendered("a").err = NoErr)
    => Placeholders(Rendered("a").sql) = DollarSeq(Len(Rendered("a").args))

(***************************************************************************)
(* C3: the arguments of a rendered UNION chain are the arguments of its    *)
(* segments in segment order, followed by the arguments of its suffix      *)
(* fragments in suffix order.  (C3_SegmentArgsOnly is the claim without    *)
(* the suffix arguments.)                                                  *)
(***************************************************************************)
SegmentArgs(d) == Flatten([k \in 1..Len(d.Parts) |-> ToSql(d.Parts[k].query).args])

SuffixArgs(d) == Flatten([k \in 1..Len(d.Suffixes) |-> nestedToSql(d.Suffixes[k]).args])

C3_Applies == kind = "union" /\ Len(regs["a"].Parts) > 0 /\ Rendered("a").err = NoErr

C3_SegmentArgsOnly ==
    C3_Applies => Rendered("a").args = SegmentArgs(regs["a"])

C3_SegmentThenSuffixArgs ==
    C3_Applies =>
        /\ Rendered("a").args = SegmentArgs(regs["a"]) \o SuffixArgs(regs["a"])
        /\ SuffixArgs(regs["a"]) = <<>> => Rendered("a").args = SegmentArgs(regs["a"])

C3_Witness ==
    /\ C3_Applies
    /\ regs["a"].CompactOutput /\ regs["a"].LimitSet /\ regs["a"].OffsetSet
    /\ regs["a"].OrderBy # <<>>
    /\ regs["a"].PlaceholderFormat = "Dollar"
    /\ Rendered("a").args = <<"10", "5", "h">>

(***************************************************************************)
(* C4: a UNION builder with no segment and a CASE builder with no WHEN     *)
(* part fail to render, whatever other calls were made on them.            *)
(***************************************************************************)
C4_EmptyCompositeFails ==
    /\ (kind = "union" /\ regs["a"].Parts = <<>>) => Rendered("a").err # NoErr
    /\ (kind = "case" /\ regs["a"].WhenParts = <<>>) => Rendered("a").err # NoErr

C4_Witness ==
    /\ kind = "union" /\ regs["a"].Parts = <<>>
    /\ regs["a"].OrderBy # <<>> /\ regs["a"].LimitSet /\ regs["a"].OffsetSet
    /\ regs["a"].Suffixes # <<>> /\ regs["a"].CompactOutput
    /\ regs["a"].PlaceholderFormat = "Dollar"
    /\ Rendered("a").err = "squirrel: union requires at least one SELECT"

(***************************************************************************)
(* C5: a CASE with at least one WHEN/THEN pair renders no ELSE when Else   *)
(* was never called; `ELSE ?` and one more argument, the value, when ELSE  *)
(* was set to a literal value; `ELSE ?` (not NULL) and one more argument,  *)
(* the null value, when ELSE was set to nil.  ELSE is set by the most      *)
(* recent Else call.                                                       *)
(***************************************************************************)
\* the builder as it was before any Else call
NoElse(d) == [d EXCEPT !.Else = Nil, !.ElseValue = NilValue, !.ElseNull = FALSE]

Front(s) == SubSeq(s, 1, Len(s) - 1)

C5_Applies ==
    kind = "case" /\ Len(regs["a"].WhenParts) >= 1 /\ Rendered("a").err = NoErr

\* r is r0 with `ELSE ?` before END and the argument v after r0's arguments
C5_ElseLiteral(r, r0, v) ==
    /\ r.sql = Front(r0.sql) \o <<"ELSE", " ", "?", " ", "END">>
    /\ "NULL" \notin Range(r.sql)
    /\ r.args = r0.args \o <<v>>

C5_ElseAsSet ==
    C5_Applies =>
        LET g == ghost["a"]
            r == Rendered("a")
            r0 == ToSql(NoElse(regs["a"]))
        IN  /\ g = <<>> => ("ELSE" \notin Range(r.sql) /\ r.args = r0.args)
            /\ (g # <<>> /\ g[Len(g)].kind = "lit")
                  => C5_ElseLiteral(r, r0, g[Len(g)].v)
            /\ (g # <<>> /\ g[Len(g)] = Nil)
                  => C5_ElseLiteral(r, r0, NilValue)

\* the same for the builders whose Else calls all set the same variant
C5_ElseOneVariant ==
    C5_Applies =>
        LET g == ghost["a"]
            r == Rendered("a")
            r0 == ToSql(NoElse(regs["a"]))
        IN  /\ g = <<>> => ("ELSE" \notin Range(r.sql) /\ r.args = r0.args)
            /\ (g # <<>> /\ \A k \in 1..Len(g) : g[k].kind = "lit")
                  => C5_ElseLiteral(r, r0, g[Len(g)].v)
            /\ (g # <<>> /\ \A k \in 1..Len(g) : g[k] = Nil)
                  => C5_ElseLiteral(r, r0, NilValue)

(***************************************************************************)
(* C6: a builder call changes no builder value but the one it returns: the *)
(* receiver and every other value keep their state and their rendering,    *)
(* and the returned value is the receiver's state plus the call's delta.   *)
(***************************************************************************)
C6_UnionDeltas(b) ==
    {[b EXCEPT !.Parts = Append(@, [op |-> o, query |-> q])] :
        o \in {"UNION", "UNION ALL"}, q \in SegPool}
    \cup {[b EXCEPT !.OrderBy = @ \o e] : e \in OrderByPool}
    \cup {[b EXCEPT !.LimitSet = TRUE, !.Limit = n] : n \in LimitPool}
    \cup {[b EXCEPT !.OffsetSet = TRUE, !.Offset = n] : n \in OffsetPool}
    \cup {[b EXCEPT !.Suffixes = @ \o <<e>>] : e \in SuffixPool}
    \cup {[b EXCEPT !.PlaceholderFormat = f] : f \in FormatPool}
    \cup {[b EXCEPT !.CompactOutput = TRUE]}

C6_CaseDeltas(b) ==
    {[b EXCEPT !.WhenParts = Append(@, newWhenPart(w, t))] : w \in WhenPool, t \in ThenPool}
    \cup {[b EXCEPT !.Else = newPart(e)] : e \in {x \in ElsePool : IsSqlizer(x)}}
    \cup {[b EXCEPT !.ElseValue = e.v] : e \in {x \in ElsePool : x.kind = "lit"}}
    \cup {[b EXCEPT !.ElseNull = TRUE]}

C6_Stored(s) ==
    IF s.kind \in {"select", "cte"} THEN [s EXCEPT !.PlaceholderFormat = "Question"] ELSE s

C6_SelectDeltas(b) ==
    {[b EXCEPT !.From = [kind |-> "fromSelectLateralPart", sel |-> C6_Stored(s),
                         alias |-> "subq"]] : s \in LateralPool}
    \cup {[b EXCEPT !.Joins = Append(@, [kind |-> "joinLateralSelectPart",
                                         joinType |-> t[1], sel |-> C6_Stored(s),
                                         alias |-> t[2], on |-> on])] :
            t \in {<<"JOIN", "j">>, <<"LEFT JOIN", "l">>}, s \in LateralPool, on \in OnPool}
    \cup {[b EXCEPT !.Joins = Append(@, [kind |-> "joinLateralSelectPart",
                                         joinType |-> "CROSS JOIN", sel |-> C6_Stored(s),
                                         alias |-> "x", on |-> Nil])] : s \in LateralPool}

C6_Deltas(b) ==
    CASE kind = "union" -> C6_UnionDeltas(b)
      [] kind = "case" -> C6_CaseDeltas(b)
      [] kind = "select" -> C6_SelectDeltas(b)

C6_CallStep ==
    \E i \in Regs, j \in Regs :
        /\ \A k \in Regs \ {j} : regs'[k] = regs[k] /\ ToSql(regs'[k]) = ToSql(regs[k])
        /\ regs'[j] \in C6_Deltas(regs[i])

Children(f) ==
    CASE f.kind = "union" -> [k \in 1..Len(f.Parts) |-> f.Parts[k].query] \o f.Suffixes
      [] f.kind = "case" ->
            (IF f.What # Nil THEN <<f.What>> ELSE <<>>)
            \o Flatten([k \in 1..Len(f.WhenParts) |->
                          <<f.WhenParts[k].when>>
                          \o (IF f.WhenParts[k].then # Nil
                              THEN <<f.WhenParts[k].then>> ELSE <<>>)])
            \o (IF f.Else # Nil THEN <<f.Else>> ELSE <<>>)
      [] f.kind = "fromSelectLateralPart" -> <<f.sel>>
      [] f.kind = "joinLateralSelectPart" ->
            <<f.sel>> \o (IF f.on # Nil THEN <<f.on>> ELSE <<>>)

Fails(f) == ToSql(f).err # NoErr

FirstFailing(cs) ==
    CHOOSE k \in 1..Len(cs) : Fails(cs[k]) /\ \A m \in 1..(k - 1) : ~Fails(cs[m])

\* the composites of the session's builder value
Composites(b) == IF kind = "select" THEN Range(LateralParts(b)) ELSE {b}

\* the rendering of f reaches its nested fragments and one of them fails
C7_Applies(f) ==
    /\ f.kind = "union" => f.Parts # <<>>
    /\ f.kind = "case" => f.WhenParts # <<>>
    /\ \E k \in 1..Len(Children(f)) : Fails(Children(f)[k])

C7_FailedRenderReturnsNothing ==
    \A f \in Composites(regs["a"]) :
        C7_Applies(f) =>
            LET r == ToSql(f)
            IN  /\ r.err # NoErr
                /\ r.calls = FirstFailing(Children(f))
                /\ r.sql = <<>>
                /\ r.args = <<>>

(***************************************************************************)
(* C8: a lateral join part renders an ON clause after its alias exactly    *)
(* when its join keyword is not CROSS JOIN.                                *)
(***************************************************************************)
HasOn(p, sql) ==
    \E k \in 1..Len(sql) :
        /\ sql[k] = ") AS " \o p.alias
        /\ k + 3 <= Len(sql)
        /\ SubSeq(sql, k + 1, k + 3) = <<" ", "ON", " ">>

C8_OnExactlyWhenNotCross ==
    kind = "select" =>
        \A p \in Range(regs["a"].Joins) :
            ToSql(p).err = NoErr =>
                (HasOn(p, ToSql(p).sql) <=> p.joinType # "CROSS JOIN")

(***************************************************************************)
(* C9: a rendered UNION chain is `(s1)`, then for every later segment the  *)
(* keyword of the call that appended it (UNION for Union, UNION ALL for    *)
(* UnionAll) and `(si)`; the first segment has no keyword, also when the   *)
(* chain started from an empty Union() or UnionAll().                      *)
(***************************************************************************)
Keyword(call) == IF call = "Union" THEN "UNION" ELSE "UNION ALL"

\* the parentheses and combining keywords of a text
Shape(sql) == SelectSeq(sql, LAMBDA c : c \in {"(", ")", "UNION", "UNION ALL"})

C9_Shape(g) ==
    <<"(", ")">> \o Flatten([k \in 1..(Len(g) - 1) |-> <<Keyword(g[k + 1]), "(", ")">>])

C9_Body(d, g) ==
    Flatten([k \in 1..Len(g) |->
               (IF k > 1 THEN <<" ", Keyword(g[k]), " ">> ELSE <<>>)
               \o <<"(">> \o ToSql(d.Parts[k].query).sql \o <<")">>])

C9_Applies == kind = "union" /\ Rendered("a").err = NoErr

C9_KeywordOfAppendingCall ==
    C9_Applies =>
        LET d == regs["a"]
            g == ghost["a"]
            r == Rendered("a")
        IN  /\ Len(g) = Len(d.Parts)
            /\ r.sql[1] = "("
            /\ Shape(r.sql) = C9_Shape(g)
            /\ d.PlaceholderFormat \in {NoFormat, "Question"}
                  => SubSeq(r.sql, 1, Len(C9_Body(d, g))) = C9_Body(d, g)

C9_Witness ==
    /\ C9_Applies
    /\ ghost["a"] = <<"UnionAll", "Union">>
    /\ regs["a"].Parts[1].op = "UNION ALL"
    /\ Text(Rendered("a").sql)
          = "(SELECT id FROM a WHERE x > ?) UNION (SELECT id FROM b WHERE y < $1)"

(***************************************************************************)
(* C10: every fragment stored by a lateral call whose type has a           *)
(* placeholder format (SELECT, CTE, UNION builder) is stored in the        *)
(* question-mark form; a raw expression is stored as passed in.            *)
(***************************************************************************)
C10_StoredNeutral ==
    kind = "select" =>
        \A p \in Range(LateralParts(regs["a"])) :
            /\ p.sel.kind \in {"select", "cte", "union"}
                  => p.sel.PlaceholderFormat \in {"Question", NoFormat}
            /\ p.sel.kind = "expr" => p.sel \in LateralPool

(***************************************************************************)
(* C11: a CASE that renders returns its arguments in emission order: the   *)
(* operand's, then per WHEN pair its WHEN arguments and its THEN           *)
(* arguments, then the ELSE arguments; a literal THEN or ELSE value, nil   *)
(* included, contributes one `?` and one argument, so the text has as many *)
(* `?` as there are arguments.  The ELSE value is the one of the most      *)
(* recent Else call.                                                       *)
(***************************************************************************)
\* the arguments a THEN or ELSE operand contributes
C11_OperandArgs(e) == IF IsSqlizer(e) THEN ToSql(e).args ELSE <<AnyValue(e)>>

\* the number of `?` a THEN or ELSE operand contributes
C11_OperandMarks(e) == IF IsSqlizer(e) THEN Len(Placeholders(ToSql(e).sql)) ELSE 1

\* args is the arguments before followed by what the ELSE operand e contributes
C11_ElseContributes(args, before, e) ==
    /\ Len(args) >= Len(before)
    /\ SubSeq(args, 1, Len(before)) = before
    /\ LET ea == SubSeq(args, Len(before) + 1, Len(args))
       IN  IF IsSqlizer(e) THEN ea = ToSql(e).args ELSE Len(ea) = 1

\* the THEN operand of a stored pair, as a call argument
C11_Then(p) ==
    IF p.then # Nil THEN p.then
    ELSE IF p.nullThen THEN Nil ELSE Lit(p.thenValue)

C11_WhatArgs(d) == IF d.What # Nil THEN ToSql(d.What).args ELSE <<>>

C11_WhenArgs(d) ==
    Flatten([k \in 1..Len(d.WhenParts) |->
                ToSql(d.WhenParts[k].when).args
                    \o C11_OperandArgs(C11_Then(d.WhenParts[k]))])

C11_Applies == kind = "case" /\ Rendered("a").err = NoErr

C11_ArgsInEmissionOrder ==
    C11_Applies =>
        LET d == regs["a"]
            g == ghost["a"]
            r == Rendered("a")
            r0 == ToSql(NoElse(d))
        IN  /\ r0.args = C11_WhatArgs(d) \o C11_WhenArgs(d)
            /\ Len(Placeholders(r0.sql)) = Len(r0.args)
            /\ IF g = <<>> THEN r.args = r0.args
               ELSE C11_ElseContributes(r.args, r0.args, g[Len(g)])
            /\ Len(Placeholders(r.sql)) = Len(Placeholders(r0.sql)) +
                    (IF g = <<>> THEN 0 ELSE C11_OperandMarks(g[Len(g)]))
            /\ Len(Placeholders(r.sql)) = Len(r.args)

\* the same, the ELSE operand being the variant the renderer picks
C11_ElseInEffect(d) ==
    IF d.Else # Nil THEN d.Else
    ELSE IF d.ElseValue # NilValue THEN Lit(d.ElseValue)
    ELSE Nil

C11_HasElse(d) == d.Else # Nil \/ d.ElseValue # NilValue \/ d.ElseNull

C11_ArgsOfRenderedElse ==
    C11_Applies =>
        LET d == regs["a"]
            r == Rendered("a")
            r0 == ToSql(NoElse(d))
        IN  /\ r0.args = C11_WhatArgs(d) \o C11_WhenArgs(d)
            /\ r.args = r0.args \o
                    (IF C11_HasElse(d) THEN C11_OperandArgs(C11_ElseInEffect(d))
                     ELSE <<>>)
            /\ Len(Placeholders(r.sql)) = Len(r.args)

(***************************************************************************)
(* C12: after any sequence of Else calls at most one ELSE variant          *)
(* (fragment, literal value, explicit null) is set, and the CASE renders   *)
(* as if only the most recent Else call had been made.                     *)
(***************************************************************************)
C12_VariantsSet(d) ==
    (IF d.Else # Nil THEN 1 ELSE 0) + (IF d.ElseValue # NilValue THEN 1 ELSE 0)
        + (IF d.ElseNull THEN 1 ELSE 0)

C12_Applies ==
    kind = "case" /\ Len(regs["a"].WhenParts) >= 1 /\ ghost["a"] # <<>>

C12_LastElseWins ==
    C12_Applies =>
        LET d == regs["a"]
            g == ghost["a"]
            last == CaseBuilder_Else(NoElse(d), g[Len(g)])
        IN  /\ C12_VariantsSet(d) <= 1
            /\ Rendered("a").sql = ToSql(last).sql
            /\ Rendered("a").args = ToSql(last).args

====
